---- MODULE Spec2Model ----
(***************************************************************************)
(* Bienstock-Zuckerberg column generation (rpakdel/bz-st): the closure     *)
(* pricer (models/pricer.py), the restricted master problem                *)
(* (models/master_problem.py) and the controller (models/bz_controller.py).*)
(*                                                                         *)
(* Real numbers are fixed-point rationals: an integer n stands for the     *)
(* real n / Scale.  Profits are whole numbers, i.e. multiples of Scale.    *)
(***************************************************************************)
EXTENDS Integers, Sequences, FiniteSets, TLC

(* ------------------------------ bounds --------------------------------- *)
Scale == 2          \* fixed-point units per 1.0
NBlocks == 3        \* blocks 0 .. NBlocks-1
MaxPi == 2          \* largest multiplier the LP back-end reports (fixed point)
MaxSeeds == 1       \* seed_with_singletons calls made on a controller
MaxRuns == 1        \* run calls made on a controller
MaxAdds == 3        \* columns handed to add_column or initialize by the caller
MaxPrunes == 1      \* prune_low_activity_columns calls made on a controller
MaxIters == 2       \* largest max_iters of a controller
MaxColumns == 2     \* the max_columns of a controller that sets one

Blocks == 0 .. (NBlocks - 1)
Source == -1        \* "__source__"
Sink == -2          \* "__sink__"
None == -1          \* an Optional value left at None

(* ------------------------------ helpers -------------------------------- *)
RECURSIVE SumSet(_, _)
SumSet(S, f) ==
    IF S = {} THEN 0
    ELSE LET x == CHOOSE y \in S : TRUE IN f[x] + SumSet(S \ {x}, f)

Max2(a, b) == IF a >= b THEN a ELSE b

\* dict.get(k, d)
Get(f, k, d) == IF k \in DOMAIN f THEN f[k] ELSE d

\* all partial maps from subsets of D into V (python dicts)
Dicts(D, V) == UNION {[K -> V] : K \in SUBSET D}

(* --------------------------- precedence DAGs --------------------------- *)
\* an edge <<u, v>> means u is a predecessor of v
RECURSIVE ReachFrom(_, _)
ReachFrom(E, R) ==
    LET R2 == R \cup {e[2] : e \in {d \in E : d[1] \in R}}
    IN IF R2 = R THEN R ELSE ReachFrom(E, R2)

Acyclic(E) == \A e \in E : e[1] \notin ReachFrom(E, {e[2]})

\* neighbouring blocks may be related in either direction
CandidateEdges == {e \in Blocks \X Blocks : e[1] - e[2] \in {-1, 1}}
Dags == {[nodes |-> Blocks, edges |-> E] : E \in {D \in SUBSET CandidateEdges : Acyclic(D)}}

IsClosure(Gr, S) == \A e \in Gr.edges : e[2] \in S => e[1] \in S
Closures(Gr) == {S \in SUBSET Gr.nodes : IsClosure(Gr, S)}

(* ------------------------------- pricer -------------------------------- *)
VARIABLES G, profits, algorithm, pr_args, pr_res, first_price

\* the weights with the dual added instead of subtracted
price_weights_plus(Gr, prof, duals) ==
    [n \in Gr.nodes |-> Get(prof, n, 0) + Get(duals, n, 0)]

price_weights(Gr, prof, duals) ==
    [n \in Gr.nodes |-> Get(prof, n, 0) - Get(duals, n, 0)]

\* sum(max(0.0, w) for w in weights.values())
SumPos(weights) == SumSet(DOMAIN weights, [n \in DOMAIN weights |-> Max2(0, weights[n])])

\* the precedence arcs laid in the direction of the edges
PrecedenceArcsForward(Gr) == Gr.edges

\* the arcs that stand for the precedence edges: v -> u for an edge u -> v
PrecedenceArcs(Gr) == {<<e[2], e[1]>> : e \in Gr.edges}

build_cut_graph(Gr, weights) ==
    LET finite_cap == SumPos(weights) + Scale
        srcArcs == {<<Source, n>> : n \in {m \in DOMAIN weights : weights[m] >= 0}}
        snkArcs == {<<n, Sink>> : n \in {m \in DOMAIN weights : weights[m] < 0}}
        arcs == srcArcs \cup snkArcs \cup PrecedenceArcs(Gr)
    IN [nodes |-> {Source, Sink} \cup DOMAIN weights,
        cap |-> [a \in arcs |->
                   IF a \in PrecedenceArcs(Gr) THEN finite_cap
                   ELSE IF a[1] = Source THEN weights[a[2]]
                   ELSE 0 - weights[a[1]]]]

CutCapacity(H, S) ==
    SumSet({a \in DOMAIN H.cap : a[1] \in S /\ a[2] \notin S}, H.cap)

\* networkx.minimum_cut: the value of a minimum s-t cut, and as source side
\* the complement of the nodes that can still reach the sink in the residual
\* network, which is the union of the source sides of all minimum cuts
minimum_cut(H) ==
    LET sides == {{Source} \cup S : S \in SUBSET (H.nodes \ {Source, Sink})}
        capOf == [S \in sides |-> CutCapacity(H, S)]
        value == CHOOSE c \in {capOf[S] : S \in sides} :
                     \A S \in sides : c <= capOf[S]
        reach == UNION {S \in sides : capOf[S] = value}
    IN [cut_value |-> value, S |-> reach, T |-> H.nodes \ reach]

\* nodes reached from the source over arcs whose 'capacity' attribute is > 0
PositiveCapacityReach(H) ==
    ReachFrom({a \in DOMAIN H.cap : H.cap[a] > 0}, {Source})

\* the reduced cost with the opposite sign
ReducedCostNegated(convexity_dual, total_weight) == total_weight - convexity_dual

ReducedCost(convexity_dual, total_weight) == convexity_dual - total_weight

price(Gr, prof, algo, duals, convexity_dual) ==
    LET weights == price_weights(Gr, prof, duals)
        H == build_cut_graph(Gr, weights)
        cut == minimum_cut(H)
        seen == IF algo = "edmonds_karp" THEN PositiveCapacityReach(H) ELSE cut.S
        selected == (seen \ {Source, Sink}) \cap Gr.nodes
        total_weight == SumPos(weights) - cut.cut_value
    IN [reduced_cost |-> ReducedCost(convexity_dual, total_weight),
        selected_blocks |-> selected,
        total_weight |-> total_weight]

\* no price call has returned yet
NoPricing == [pending |-> TRUE]

\* first_price remembers the arguments and the result of the first price
\* call made on the pricer, and whether a call with other arguments followed
FirstPrice(args, res) ==
    IF first_price = NoPricing THEN [args |-> args, res |-> res, other |-> FALSE]
    ELSE [first_price EXCEPT !.other = @ \/ args # first_price.args]

(* ------------------------------- master -------------------------------- *)
\* MasterProblem: columns, lambda_vars (column id -> LP variable), the PuLP
\* model (objective terms and named constraints) and the two counters.  An LP
\* variable is identified by its position in the objective.
VARIABLES master, sol

Range(f) == {f[k] : k \in DOMAIN f}

MasterProblem(n) ==
    [n_blocks |-> n,
     columns |-> <<>>,
     lambda_vars |-> <<>>,
     objective |-> <<>>,
     constraints |-> {},
     next_column_id |-> 0,
     constraint_version |-> 0]

BlockPattern(id, blocks, profit, name) ==
    [id |-> id, blocks |-> blocks, profit |-> profit, name |-> name]

rebuild_convexity_constraint_le(m) ==
    [m EXCEPT !.constraints =
        {c \in m.constraints : c.kind # "convexity"} \cup
        {[kind |-> "convexity", block |-> -1, version |-> m.constraint_version,
          sense |-> "LE", coefs |-> [v \in Range(m.lambda_vars) |-> 1]]}]

rebuild_convexity_constraint(m) ==
    [m EXCEPT !.constraints =
        {c \in m.constraints : c.kind # "convexity"} \cup
        {[kind |-> "convexity", block |-> -1, version |-> m.constraint_version,
          sense |-> "EQ", coefs |-> [v \in Range(m.lambda_vars) |-> 1]]}]

rebuild_block_constraints(m) ==
    LET holders(b) == {i \in DOMAIN m.columns : b \in m.columns[i].blocks}
        relevant(b) == {m.lambda_vars[m.columns[i].id] : i \in holders(b)}
        times(b, v) == Cardinality({i \in holders(b) : m.lambda_vars[m.columns[i].id] = v})
    IN [m EXCEPT !.constraints =
        {c \in m.constraints : c.kind # "block"} \cup
        {[kind |-> "block", block |-> b, version |-> m.constraint_version,
          sense |-> "LE", coefs |-> [v \in relevant(b) |-> times(b, v)]]
            : b \in {d \in 0 .. (m.n_blocks - 1) : holders(d) # {}}}]

add_column_without_profit(m, pattern) ==
    LET fresh == pattern.id = None
        id == IF fresh THEN m.next_column_id ELSE pattern.id
        var == Len(m.objective) + 1
        m1 == [m EXCEPT
                 !.next_column_id = IF fresh THEN @ + 1 ELSE @,
                 !.lambda_vars = [k \in DOMAIN @ \cup {id} |-> IF k = id THEN var ELSE @[k]],
                 !.objective = Append(@, [name |-> id, coef |-> 0]),
                 !.columns = Append(@, [pattern EXCEPT !.id = id]),
                 !.constraint_version = @ + 1]
    IN rebuild_block_constraints(rebuild_convexity_constraint(m1))

add_column(m, pattern) ==
    LET fresh == pattern.id = None
        id == IF fresh THEN m.next_column_id ELSE pattern.id
        var == Len(m.objective) + 1
        m1 == [m EXCEPT
                 !.next_column_id = IF fresh THEN @ + 1 ELSE @,
                 !.lambda_vars = [k \in DOMAIN @ \cup {id} |-> IF k = id THEN var ELSE @[k]],
                 !.objective = Append(@, [name |-> id, coef |-> pattern.profit]),
                 !.columns = Append(@, [pattern EXCEPT !.id = id]),
                 !.constraint_version = @ + 1]
    IN rebuild_block_constraints(rebuild_convexity_constraint(m1))

RECURSIVE initialize(_, _)
initialize(m, initial_patterns) ==
    IF initial_patterns = <<>> THEN m
    ELSE initialize(add_column(m, Head(initial_patterns)), Tail(initial_patterns))

(* The LP handed to the back-end: maximise the objective over all variables *)
(* that occur in it, each >= 0, subject to the named constraints (rhs 1.0). *)
LpVars(m) == DOMAIN m.objective
LiveVars(m) == Range(m.lambda_vars)
Coef(c, v) == IF v \in DOMAIN c.coefs THEN c.coefs[v] ELSE 0
Dot(c, x) == SumSet(DOMAIN c.coefs, [v \in DOMAIN c.coefs |-> c.coefs[v] * x[v]])

\* the points of the grid whose coordinates sum to at most n
RECURSIVE GridPoints(_, _)
GridPoints(V, n) ==
    IF n = 0 THEN {[v \in V |-> 0]}
    ELSE LET below == GridPoints(V, n - 1)
         IN below \cup {[x EXCEPT ![v] = @ + 1] : x \in below, v \in V}

\* values of the variables that satisfy every constraint; a variable that
\* occurs in no constraint is put at 0
PrimalFeasible(m) ==
    LET free == {v \in LpVars(m) : \A c \in m.constraints : Coef(c, v) = 0}
    IN {x \in {[v \in LpVars(m) |-> IF v \in free THEN 0 ELSE y[v]] :
                  y \in GridPoints(LpVars(m) \ free, Scale)} :
          \A c \in m.constraints :
              IF c.sense = "EQ" THEN Dot(c, x) = Scale ELSE Dot(c, x) <= Scale}

ObjectiveValue(m, x) ==
    SumSet(LpVars(m), [v \in LpVars(m) |-> (m.objective[v].coef * x[v]) \div Scale])

\* the optimum and the feasible points that attain it
BestPrimal(m) ==
    LET feas == PrimalFeasible(m)
        valOf == [x \in feas |-> ObjectiveValue(m, x)]
        opt == CHOOSE o \in Range(valOf) : \A x \in feas : valOf[x] <= o
    IN [opt |-> opt, at |-> {x \in feas : valOf[x] = opt}]

\* a variable with a positive objective coefficient and no constraint
Unbounded(m) ==
    \E v \in LpVars(m) :
        /\ m.objective[v].coef > 0
        /\ \A c \in m.constraints : Coef(c, v) = 0

\* multipliers pi >= 0 of the block constraints and z (free) of the convexity
\* constraint, such that every variable's column prices out
DualFeasible(m, z, pi) ==
    \A v \in LpVars(m) :
        (IF v \in LiveVars(m) THEN z ELSE 0)
          + SumSet(DOMAIN pi, [c \in DOMAIN pi |-> Coef(c, v) * pi[c]])
            >= m.objective[v].coef

\* optimal multipliers: dual feasible with dual value z + sum(pi) = the optimum
BestDual(m, opt) ==
    LET blk == {c \in m.constraints : c.kind = "block"}
    IN {d \in {[z |-> opt - SumSet(blk, pi), pi |-> pi] : pi \in [blk -> 0 .. MaxPi]} :
          DualFeasible(m, d.z, d.pi)}

SolverError == [status |-> "error"]

\* solve without its special case for a master without variables
solve_through_lp(m) ==
    IF PrimalFeasible(m) = {} \/ Unbounded(m) THEN {SolverError}
    ELSE LET best == BestPrimal(m)
             blk == {c \in m.constraints : c.kind = "block"}
         IN {[status |-> "optimal",
              objective_value |-> best.opt,
              duals |-> [b \in {c.block : c \in blk} |->
                            d.pi[CHOOSE c \in blk : c.block = b]],
              convexity_dual |-> d.z,
              variable_values |-> [k \in DOMAIN m.lambda_vars |-> x[m.lambda_vars[k]]]]
                : x \in best.at, d \in BestDual(m, best.opt)}

\* MasterProblem.solve: the outcomes the LP back-end can produce
solve(m) ==
    IF m.lambda_vars = <<>> THEN
        {[status |-> "optimal", objective_value |-> 0, duals |-> <<>>,
          convexity_dual |-> 0, variable_values |-> <<>>]}
    ELSE IF PrimalFeasible(m) = {} \/ Unbounded(m) THEN {SolverError}
    ELSE LET best == BestPrimal(m)
             blk == {c \in m.constraints : c.kind = "block"}
         IN {[status |-> "optimal",
              objective_value |-> best.opt,
              duals |-> [b \in {c.block : c \in blk} |->
                            d.pi[CHOOSE c \in blk : c.block = b]],
              convexity_dual |-> d.z,
              variable_values |-> [k \in DOMAIN m.lambda_vars |-> x[m.lambda_vars[k]]]]
                : x \in best.at, d \in BestDual(m, best.opt)}

\* what run reads of a solution: everything but the lambda values
WithoutValues(s) ==
    IF s.status = "optimal"
    THEN [status |-> s.status, objective_value |-> s.objective_value,
          duals |-> s.duals, convexity_dual |-> s.convexity_dual]
    ELSE s

NoSolution == [status |-> "none"]

\* MasterProblem.export_solution
export_solution(m) ==
    IF m.lambda_vars = <<>> THEN {[status |-> "no_variables"]}
    ELSE {IF r.status = "optimal"
          THEN [status |-> "optimal", objective |-> r.objective_value, duals |-> r.duals,
                variables |-> r.variable_values, n_columns |-> Len(m.columns)]
          ELSE [status |-> "error"] : r \in solve(m)}

\* the name a constraint carries in the PuLP model: "convexity_<version>" or
\* "block_<block>_<version>"
ConstraintName(c) ==
    IF c.kind = "block" THEN <<"block", c.block, c.version>>
    ELSE <<"convexity", c.version>>

\* MasterProblem.get_block_dual(block_id) after the solve that returned s:
\* the pi of the constraint named "block_<block_id>", 0.0 without one
get_block_dual(m, s, block_id) ==
    LET named == {c \in m.constraints : ConstraintName(c) = <<"block", block_id>>}
    IN IF named # {} THEN s.duals[(CHOOSE c \in named : TRUE).block] ELSE 0

(* ----------------------------- controller ------------------------------ *)
\* BZController: its configuration, the history and diagnostics it keeps,
\* the position of run (pc, it) and the value run returned last
VARIABLES eps, max_iters, max_columns, history, diagnostics, pc, it, result, calls,
          iter_callbacks, cb_calls, cancel_flag

\* sorted(ids, key=profit, reverse=True): stable, so ties keep id order
RECURSIVE SortedByProfit(_, _)
SortedByProfit(ids, prof) ==
    IF ids = {} THEN <<>>
    ELSE LET b == CHOOSE c \in ids :
                    \A d \in ids : \/ Get(prof, c, 0) > Get(prof, d, 0)
                                   \/ Get(prof, c, 0) = Get(prof, d, 0) /\ c <= d
         IN <<b>> \o SortedByProfit(ids \ {b}, prof)

Prefix(seq, n) == SubSeq(seq, 1, IF n < Len(seq) THEN n ELSE Len(seq))

\* the blocks seed_with_singletons walks over, in order
SeedIds(m, prof, limit, topk) ==
    LET all == [i \in 1 .. m.n_blocks |-> i - 1]
        ids == IF topk # None THEN Prefix(SortedByProfit(0 .. (m.n_blocks - 1), prof), topk)
               ELSE all
    IN IF limit = None THEN ids ELSE Prefix(ids, Max2(1, limit))

\* the column added twice, under two ids
add_with_next_id_twice(m, blocks, profit, name) ==
    LET m1 == add_column(m, BlockPattern(m.next_column_id, blocks, profit, name))
        m2 == add_column(m1, BlockPattern(m.next_column_id + 1, blocks, profit, name))
    IN [m2 EXCEPT !.next_column_id = @ + 2]

\* the column added with the sign of its profit turned
add_with_next_id_negated(m, blocks, profit, name) ==
    LET m1 == add_column(m, BlockPattern(m.next_column_id, blocks, 0 - profit, name))
    IN [m1 EXCEPT !.next_column_id = @ + 1]

\* the controller's way of adding a column: the id is taken from
\* next_column_id, which is advanced after add_column
add_with_next_id(m, blocks, profit, name) ==
    LET m1 == add_column(m, BlockPattern(m.next_column_id, blocks, profit, name))
    IN [m1 EXCEPT !.next_column_id = @ + 1]

RECURSIVE SeedLoop(_, _, _)
SeedLoop(m, prof, ids) ==
    IF ids = <<>> THEN m
    ELSE SeedLoop(add_with_next_id(m, {Head(ids)}, Get(prof, Head(ids), 0), "init"),
                  prof, Tail(ids))

seed_with_singletons(m, prof, limit, topk) == SeedLoop(m, prof, SeedIds(m, prof, limit, topk))

Abs(x) == IF x < 0 THEN 0 - x ELSE x

\* (ub - objective) / max(1.0, ub) if ub > 0 else 0.0, as a fraction
RelGap(ub, objective) ==
    IF ub > 0 THEN [num |-> ub - objective, den |-> Max2(Scale, ub)]
    ELSE [num |-> 0, den |-> 1]

FracLeq(a, b) == a.num * b.den <= b.num * a.den

\* the bound without the block duals
dual_upper_bound_without_duals(sum_duals, z, W_star) == Max2(z, W_star)

\* the bound with the smaller of z and W*
dual_upper_bound_min(sum_duals, z, W_star) ==
    sum_duals + (IF z <= W_star THEN z ELSE W_star)

\* ub = sum_duals + max(z, W_star)
dual_upper_bound(sum_duals, z, W_star) == sum_duals + Max2(z, W_star)

HistoryEntry(i, m, s, pr) ==
    LET sum_duals == SumSet(DOMAIN s.duals, s.duals)
        ub == dual_upper_bound(sum_duals, s.convexity_dual, pr.total_weight)
    IN [iter |-> i,
        objective |-> s.objective_value,
        n_columns |-> Len(m.columns),
        reduced_cost |-> pr.reduced_cost,
        total_weight |-> pr.total_weight,
        selected_blocks |-> pr.selected_blocks,
        convexity_dual |-> s.convexity_dual,
        dual_norm |-> SumSet(DOMAIN s.duals, [b \in DOMAIN s.duals |-> Abs(s.duals[b])]),
        ub |-> ub,
        rel_gap |-> RelGap(ub, s.objective_value)]

\* min(h['rel_gap'] for h in history): the first smallest one
BestRelGap(h) ==
    LET i == CHOOSE j \in DOMAIN h :
                 /\ \A k \in DOMAIN h : FracLeq(h[j].rel_gap, h[k].rel_gap)
                 /\ \A k \in 1 .. (j - 1) : ~FracLeq(h[k].rel_gap, h[j].rel_gap)
    IN IF h = <<>> THEN [num |-> 0, den |-> 1] ELSE h[i].rel_gap

BestObjective(h, default) ==
    IF h = <<>> THEN default
    ELSE CHOOSE o \in {h[j].objective : j \in DOMAIN h} :
             \A k \in DOMAIN h : h[k].objective <= o

NoResult == [status |-> "none"]
NoCalls == [seed |-> 0, run |-> 0, add |-> 0, prune |-> 0]

ctlVars == <<eps, max_iters, max_columns, history, diagnostics, pc, it, result, calls,
            iter_callbacks, cb_calls, cancel_flag>>
masterVars == <<master, sol>>
\* cancel_flag is the flag a caller raises to have a run stopped; the
\* controller has no parameter or attribute for it and run reads nothing of
\* the kind
cfgVars == <<G, profits, algorithm, eps, max_iters, max_columns, iter_callbacks,
            cancel_flag>>

\* sol is what the latest direct call of solve returned on the master as it
\* stands; a call that changes the master leaves nothing to read
KeepSol == sol' = IF master' = master THEN sol ELSE NoSolution

\* BZController.seed_with_singletons(limit, topk)
Seed(limit, topk) ==
    /\ pc = "idle"
    /\ calls.seed < MaxSeeds
    /\ calls' = [calls EXCEPT !.seed = @ + 1]
    /\ master' = seed_with_singletons(master, profits, limit, topk)
    /\ KeepSol
    /\ UNCHANGED <<cfgVars, pr_args, pr_res, first_price, history, cb_calls, diagnostics, pc, it, result>>

\* for it in range(self.max_iters): the loop has a pass left
in_range_inclusive(i, m) == i <= m

in_range(i, m) == i < m

\* a stop test with 1.0 more of tolerance
reduced_cost_stop_loose(reduced_cost, e) == reduced_cost >= 0 - e - Scale

\* a stop test that never stops
reduced_cost_stop_never(reduced_cost, e) == FALSE

\* the stop test of run on the reduced cost of the pricing
reduced_cost_stop_always(reduced_cost, e) == TRUE

reduced_cost_stop(reduced_cost, e) == reduced_cost >= 0 - e

\* the guard letting one column too many in
max_columns_guard_strict(mc, n_columns) == mc # None /\ n_columns > mc

\* self.max_columns is not None and len(self.master.columns) >= self.max_columns
max_columns_guard(mc, n_columns) == mc # None /\ n_columns >= mc

\* run entered without clearing the history
RunBeginKeepingHistory(runs) ==
    /\ pc = "idle"
    /\ calls.run < runs
    /\ calls' = [calls EXCEPT !.run = @ + 1]
    /\ cb_calls' = <<>>
    /\ pc' = "running"
    /\ it' = 0
    /\ result' = NoResult
    /\ UNCHANGED <<cfgVars, master, sol, pr_args, pr_res, first_price, diagnostics, history>>

\* BZController.run, up to the loop, on a controller that has run fewer than
\* `runs` times: the history is cleared
RunBeginWithin(runs) ==
    /\ pc = "idle"
    /\ calls.run < runs
    /\ calls' = [calls EXCEPT !.run = @ + 1]
    /\ history' = <<>>
    /\ cb_calls' = <<>>
    /\ pc' = "running"
    /\ it' = 0
    /\ result' = NoResult
    /\ UNCHANGED <<cfgVars, master, sol, pr_args, pr_res, first_price, diagnostics>>

RunBegin == RunBeginWithin(MaxRuns)

\* run called on a controller that may have run before
RunAgain == RunBeginWithin(MaxRuns + 1)

\* the loop over iter_callbacks without its try/except: the first callback
\* that raises ends it
invoke_callbacks_uncaught(cbs, i, n_entries, n_columns) ==
    LET raising == {k \in DOMAIN cbs : cbs[k] = "raises"}
        last == IF raising = {} THEN Len(cbs)
                ELSE CHOOSE k \in raising : \A j \in raising : k <= j
    IN [calls |-> [k \in 1 .. last |->
                     [cb |-> k, iter |-> i, entries |-> n_entries,
                      columns |-> n_columns, outcome |-> cbs[k]]],
        raised |-> raising # {}]

\* the loop over iter_callbacks: every callback is called with the entry
\* just appended, in the order of registration; an Exception one raises is
\* logged and the loop goes on. A call is recorded with what the callback
\* finds: the number of the pass, the entries in the history and the columns
\* in the master
invoke_callbacks(cbs, i, n_entries, n_columns) ==
    [calls |-> [k \in DOMAIN cbs |->
                  [cb |-> k, iter |-> i, entries |-> n_entries,
                   columns |-> n_columns, outcome |-> cbs[k]]],
     raised |-> FALSE]

\* one pass of the loop of run with the callbacks cbs: solve, price, record,
\* call back, then stop or add
RunPass(cbs) ==
    /\ pc = "running"
    /\ in_range(it, max_iters)
    /\ UNCHANGED calls
    /\ \E s \in {WithoutValues(r) : r \in solve(master)} :
        /\ IF s.status # "optimal" THEN
              \* the ValueError of solve leaves run
              /\ pc' = "idle"
              /\ result' = [status |-> "raised"]
              /\ UNCHANGED <<cfgVars, master, pr_args, pr_res, first_price, history, diagnostics, it>>
           ELSE
              LET pr == price(G, profits, algorithm, s.duals, s.convexity_dual)
                  entry == HistoryEntry(it, master, s, pr)
                  h == Append(history, entry)
              IN /\ pr_args' = [duals |-> s.duals, convexity_dual |-> s.convexity_dual]
                 /\ pr_res' = pr
                 /\ first_price' = FirstPrice(pr_args', pr)
                 /\ history' = h
                 /\ IF invoke_callbacks(cbs, it, Len(h), Len(master.columns)).raised THEN
                       \* an exception of a callback leaves run
                       /\ pc' = "idle"
                       /\ result' = [status |-> "raised"]
                       /\ UNCHANGED <<cfgVars, master, it, diagnostics>>
                    ELSE IF reduced_cost_stop(pr.reduced_cost, eps) THEN
                       /\ diagnostics' = ("best_rel_gap" :> BestRelGap(h))
                                      @@ ("best_objective" :> BestObjective(h, s.objective_value))
                                      @@ ("last_ub" :> entry.ub)
                       /\ pc' = "idle"
                       /\ result' = [status |-> "converged", iterations |-> it,
                                     objective |-> s.objective_value]
                       /\ UNCHANGED <<cfgVars, master, it>>
                    ELSE IF max_columns_guard(max_columns, Len(master.columns)) THEN
                       /\ pc' = "idle"
                       /\ result' = [status |-> "max_columns_reached", iterations |-> it,
                                     objective |-> s.objective_value]
                       /\ UNCHANGED <<cfgVars, master, it, diagnostics>>
                    ELSE
                       /\ master' = add_with_next_id(master, pr.selected_blocks,
                                        SumSet(pr.selected_blocks,
                                               [b \in pr.selected_blocks |-> Get(profits, b, 0)]),
                                        "col")
                       /\ it' = it + 1
                       /\ UNCHANGED <<cfgVars, pc, result, diagnostics>>
    /\ KeepSol

\* one pass of the loop of run, with the calls of the registered callbacks
RunIter ==
    /\ RunPass(iter_callbacks)
    /\ cb_calls' =
          IF SolverError \in solve(master) THEN cb_calls
          ELSE cb_calls \o invoke_callbacks(iter_callbacks, it, Len(history) + 1,
                                            Len(master.columns)).calls

\* run after the loop: the final solve and the 'max_iters' result
RunExit ==
    /\ pc = "running"
    /\ ~in_range(it, max_iters)
    /\ UNCHANGED calls
    /\ \E s \in {WithoutValues(r) : r \in solve(master)} :
        /\ UNCHANGED sol
        /\ pc' = "idle"
        /\ IF s.status # "optimal" THEN
              /\ result' = [status |-> "raised"]
              /\ UNCHANGED diagnostics
           ELSE
              /\ diagnostics' =
                    (IF history # <<>> THEN ("last_ub" :> history[Len(history)].ub) ELSE <<>>)
                    @@ ("best_rel_gap" :> BestRelGap(history))
                    @@ ("best_objective" :> BestObjective(history, s.objective_value))
                    @@ diagnostics
              /\ result' = [status |-> "max_iters", iterations |-> max_iters,
                            objective |-> s.objective_value]
        /\ UNCHANGED <<cfgVars, master, pr_args, pr_res, first_price, history, cb_calls, it>>

\* the column positions by (activity, profit) descending; sorted() is stable,
\* so equal keys keep the order of the columns
RECURSIVE RankColumns(_, _, _)
RankColumns(m, lambda_vals, left) ==
    IF left = {} THEN <<>>
    ELSE LET val(i) == Get(lambda_vals, m.columns[i].id, 0)
             before(i, j) == \/ val(i) > val(j)
                             \/ val(i) = val(j) /\ m.columns[i].profit > m.columns[j].profit
                             \/ val(i) = val(j) /\ m.columns[i].profit = m.columns[j].profit
                                                /\ i <= j
             first == CHOOSE i \in left : \A j \in left : before(i, j)
         IN <<first>> \o RankColumns(m, lambda_vals, left \ {first})

\* prune_low_activity_columns after its solve: keep the columns whose id is
\* among the keep_top_k best, drop the variables of the others, rebuild
prune_columns(m, lambda_vals, keep_top_k) ==
    LET ranked == Prefix(RankColumns(m, lambda_vals, DOMAIN m.columns), keep_top_k)
        to_keep == {m.columns[ranked[i]].id : i \in DOMAIN ranked}
        keep(p) == p.id \in to_keep
        m1 == [m EXCEPT
                 !.columns = SelectSeq(@, keep),
                 !.lambda_vars = [k \in DOMAIN @ \cap (to_keep \cup
                                     (DOMAIN @ \ {m.columns[i].id : i \in DOMAIN m.columns}))
                                     |-> @[k]]]
    IN rebuild_block_constraints(rebuild_convexity_constraint(m1))

\* BZController.prune_low_activity_columns(keep_top_k)
Prune(keep_top_k) ==
    /\ pc = "idle"
    /\ calls.prune < MaxPrunes
    /\ calls' = [calls EXCEPT !.prune = @ + 1]
    /\ IF master.columns = <<>> THEN UNCHANGED master
       ELSE \E s \in solve(master) :
              IF s.status # "optimal" THEN UNCHANGED master
              ELSE master' = prune_columns(master, s.variable_values, keep_top_k)
    /\ KeepSol
    /\ UNCHANGED <<cfgVars, pr_args, pr_res, first_price, history, cb_calls, diagnostics, pc, it, result>>

\* MasterProblem.add_column(pattern) called on the controller's master
AddColumn(pattern) ==
    /\ pc = "idle"
    /\ calls.add < MaxAdds
    /\ calls' = [calls EXCEPT !.add = @ + 1]
    /\ master' = add_column(master, pattern)
    /\ KeepSol
    /\ UNCHANGED <<cfgVars, pr_args, pr_res, first_price, history, cb_calls, diagnostics, pc, it, result>>

\* MasterProblem.initialize(initial_patterns)
Initialize(initial_patterns) ==
    /\ pc = "idle"
    /\ calls.add + Len(initial_patterns) <= MaxAdds
    /\ calls' = [calls EXCEPT !.add = @ + Len(initial_patterns)]
    /\ master' = initialize(master, initial_patterns)
    /\ KeepSol
    /\ UNCHANGED <<cfgVars, pr_args, pr_res, first_price, history, cb_calls, diagnostics, pc, it, result>>

\* MasterProblem.solve() called directly; sol is what it returned
Solve ==
    /\ pc = "idle"
    /\ sol' \in solve(master)
    /\ UNCHANGED <<cfgVars, master, pr_args, pr_res, first_price, ctlVars>>

\* block profits -1.0 and 1.0 (a block without an entry counts 0.0), duals of
\* one fixed-point unit, convexity duals of either sign
ProfitVals == {0 - Scale, Scale}
DualVals == {1}
ZVals == {0 - 1, Scale}

pricerVars == <<G, profits, algorithm, pr_args, pr_res, first_price>>
vars == <<pricerVars, masterVars, ctlVars>>

\* what a specification that never touches a component leaves it at
MasterIdle == master = MasterProblem(NBlocks) /\ sol = NoSolution
CtlIdle ==
    /\ eps = 0 /\ max_iters = 0 /\ max_columns = None
    /\ history = <<>> /\ diagnostics = <<>>
    /\ pc = "idle" /\ it = 0 /\ result = NoResult
    /\ calls = NoCalls
    /\ iter_callbacks = <<>> /\ cb_calls = <<>> /\ cancel_flag = FALSE

\* a pricer on any DAG and profit map, about to be called with any duals
InitPricer ==
    /\ G \in Dags
    /\ profits \in Dicts(Blocks, ProfitVals)
    /\ algorithm \in {"min_cut", "edmonds_karp"}
    /\ pr_args \in [duals : Dicts(Blocks, DualVals), convexity_dual : ZVals]
    /\ pr_res = NoPricing
    /\ first_price = NoPricing
    /\ MasterIdle
    /\ CtlIdle

\* ClosurePricer.price(duals, convexity_dual)
PriceCall ==
    /\ pr_res' = price(G, profits, algorithm, pr_args.duals, pr_args.convexity_dual)
    /\ first_price' = FirstPrice(pr_args, pr_res')
    /\ UNCHANGED <<G, profits, algorithm, pr_args, masterVars, ctlVars>>

NextPricer == PriceCall

SpecPricer == InitPricer /\ [][NextPricer]_vars

(* --------------------- a pricer called several times -------------------- *)
\* the duals of the calls: none, 0.5 on block 0, 0.5 on every block
CallDuals == {d \in Dicts(Blocks, DualVals) : DOMAIN d \in {{}, {0}, Blocks}}

\* a price that writes the weights it computed over the profits it holds
PriceKeepingWeights(duals, convexity_dual) ==
    /\ pr_args' = [duals |-> duals, convexity_dual |-> convexity_dual]
    /\ pr_res' = price(G, profits, algorithm, duals, convexity_dual)
    /\ first_price' = FirstPrice(pr_args', pr_res')
    /\ profits' = price_weights(G, profits, duals)
    /\ UNCHANGED <<G, algorithm, masterVars, ctlVars>>

\* ClosurePricer.price(duals, convexity_dual): G, profits and algorithm are
\* read, nothing of the pricer is written
Price(duals, convexity_dual) ==
    /\ pr_args' = [duals |-> duals, convexity_dual |-> convexity_dual]
    /\ pr_res' = price(G, profits, algorithm, duals, convexity_dual)
    /\ first_price' = FirstPrice(pr_args', pr_res')
    /\ UNCHANGED <<G, profits, algorithm, masterVars, ctlVars>>

PriceAny == \E d \in CallDuals, z \in ZVals : Price(d, z)

InitPricerCalls ==
    /\ G \in Dags
    /\ profits \in Dicts(Blocks, ProfitVals)
    /\ algorithm \in {"min_cut", "edmonds_karp"}
    /\ pr_args = [duals |-> <<>>, convexity_dual |-> 0]
    /\ pr_res = NoPricing
    /\ first_price = NoPricing
    /\ MasterIdle
    /\ CtlIdle

NextPricerCalls == PriceAny

SpecPricerCalls == InitPricerCalls /\ [][NextPricerCalls]_vars

(* ------------------- seeding and running a controller ------------------ *)
EpsVals == {0, 1}
SeedArgs == {<<None, None>>, <<1, None>>, <<None, 1>>, <<None, 2>>}

\* the controllers are built on chains: no precedence, 0 -> 1 -> 2 -> ...,
\* or ... -> 2 -> 1 -> 0
ChainDags ==
    {d \in Dags : \/ d.edges = {}
                  \/ d.edges = {e \in CandidateEdges : e[1] < e[2]}
                  \/ d.edges = {e \in CandidateEdges : e[1] > e[2]}}

\* BZController(n_blocks, precedence_graph, profits, eps, max_iters, max_columns)
InitControllerOf(iters) ==
    /\ G \in ChainDags
    /\ profits \in Dicts(Blocks, ProfitVals)
    /\ algorithm = "min_cut"
    /\ pr_args = [duals |-> <<>>, convexity_dual |-> 0]
    /\ pr_res = NoPricing
    /\ first_price = NoPricing
    /\ master = MasterProblem(NBlocks)
    /\ sol = NoSolution
    /\ eps \in EpsVals
    /\ max_iters \in iters
    /\ max_columns \in {None, MaxColumns}
    /\ history = <<>>
    /\ diagnostics = <<>>
    /\ pc = "idle"
    /\ it = 0
    /\ result = NoResult
    /\ calls = NoCalls
    /\ cb_calls = <<>>

InitController == InitControllerOf(1 .. MaxIters)

\* a controller without callbacks
InitRun == InitController /\ iter_callbacks = <<>> /\ cancel_flag = FALSE

\* the callbacks add_iteration_callback registered before run: one that
\* raises and one that returns, in either order
CallbackLists == {<<"raises", "returns">>, <<"returns", "raises">>}

InitRunCallbacks ==
    InitController /\ eps = 0 /\ iter_callbacks \in CallbackLists /\ cancel_flag = FALSE

\* a controller whose caller has asked for the run to be stopped
InitRunCancel == InitController /\ eps = 0 /\ iter_callbacks = <<>> /\ cancel_flag = TRUE

SeedCall == \E a \in SeedArgs : Seed(a[1], a[2])

NextRun == SeedCall \/ RunBegin \/ RunIter \/ RunExit

SpecRun == InitRun /\ [][NextRun]_vars

SpecRunCallbacks == InitRunCallbacks /\ [][NextRun]_vars

SpecRunCancel == InitRunCancel /\ [][NextRun]_vars

\* a controller on a chain with precedence, given one pass or more passes
\* than the chain has closures
LongIters == NBlocks + 2
InitRunLong ==
    /\ InitControllerOf({1, LongIters})
    /\ G.edges # {}
    /\ max_columns = None
    /\ iter_callbacks = <<>>
    /\ cancel_flag = FALSE

SpecRunLong == InitRunLong /\ [][NextRun]_vars

\* a controller on the chain 0 -> 1 -> 2 with a profit for every block, run
\* once more than the others
InitRunTwice ==
    /\ InitRun
    /\ G.edges = {e \in CandidateEdges : e[1] < e[2]}
    /\ DOMAIN profits = Blocks
    /\ eps = 0

NextRunTwice == SeedCall \/ RunAgain \/ RunIter \/ RunExit

SpecRunTwice == InitRunTwice /\ [][NextRunTwice]_vars

(* ------------------------ a master used directly ------------------------ *)
\* the columns a caller hands to the master: patterns A (profit 2.0) and B
\* (profit 1.0) on block 0, one reaching past n_blocks, the empty pattern and
\* a loss on block n_blocks, each without an id or with the id 0 or 1
PatternShapes ==
    {<<{0}, 2 * Scale>>, <<{0}, Scale>>, <<{1, NBlocks}, Scale>>, <<{}, 0>>,
     <<{NBlocks}, 0 - Scale>>}
PatternPool ==
    {BlockPattern(id, sh[1], sh[2], "user") : id \in {None, 0, 1}, sh \in PatternShapes}
KeepTopKs == {0, 1, 2}

InitMaster ==
    /\ G = [nodes |-> Blocks, edges |-> {}]
    /\ profits = <<>>
    /\ algorithm = "min_cut"
    /\ pr_args = [duals |-> <<>>, convexity_dual |-> 0]
    /\ pr_res = NoPricing
    /\ first_price = NoPricing
    /\ master = MasterProblem(NBlocks)
    /\ sol = NoSolution
    /\ CtlIdle

AddColumnCall == \E p \in PatternPool : AddColumn(p)
InitializeCall == \E p \in PatternPool, q \in PatternPool : Initialize(<<p, q>>)
PruneCall == \E k \in KeepTopKs : Prune(k)

NextMaster == AddColumnCall \/ InitializeCall \/ PruneCall \/ Solve

SpecMaster == InitMaster /\ [][NextMaster]_vars

(* ------------- a controller whose master the caller also uses ----------- *)
\* the columns the caller adds next to those of the controller: pattern A,
\* without an id or with the id 1
OwnPatterns == {p \in PatternPool : p.id \in {None, 1} /\ p.profit = 2 * Scale}

AddOwnColumn == \E p \in OwnPatterns : AddColumn(p)
InitializeOwn == \E p \in OwnPatterns, q \in OwnPatterns : Initialize(<<p, q>>)

\* BZController(...) on the chain 0 -> 1 -> 2 -> ..., the blocks worth 1.0
\* but for block 1, a loss of 1.0
Init ==
    /\ G = [nodes |-> Blocks, edges |-> {e \in CandidateEdges : e[1] < e[2]}]
    /\ profits = [b \in Blocks |-> IF b = 1 THEN 0 - Scale ELSE Scale]
    /\ algorithm = "min_cut"
    /\ pr_args = [duals |-> <<>>, convexity_dual |-> 0]
    /\ pr_res = NoPricing
    /\ first_price = NoPricing
    /\ master = MasterProblem(NBlocks)
    /\ sol = NoSolution
    /\ eps = 0
    /\ max_iters = 1
    /\ max_columns = None
    /\ history = <<>>
    /\ diagnostics = <<>>
    /\ pc = "idle"
    /\ it = 0
    /\ result = NoResult
    /\ calls = NoCalls
    /\ iter_callbacks = <<>>
    /\ cb_calls = <<>>
    /\ cancel_flag = FALSE

Next ==
    \/ SeedCall
    \/ RunBegin
    \/ RunIter
    \/ RunExit
    \/ PruneCall
    \/ AddOwnColumn
    \/ InitializeOwn
    \/ Solve

Spec == Init /\ [][Next]_vars

(* ------------------------------- claims -------------------------------- *)
\* the weight profit - dual of a block, a missing profit or dual being 0
BlockWeight(b) == Get(profits, b, 0) - Get(pr_args.duals, b, 0)
WeightOf(S) == SumSet(S, [b \in S |-> BlockWeight(b)])
MaxClosureWeight ==
    CHOOSE w \in {WeightOf(S) : S \in Closures(G)} :
        \A S \in Closures(G) : WeightOf(S) <= w
Priced == pr_res # NoPricing

C2_TotalWeightIsMaxClosure ==
    Priced =>
        /\ pr_res.total_weight = MaxClosureWeight
        /\ pr_res.total_weight >= 0
        /\ algorithm = "min_cut" => WeightOf(pr_res.selected_blocks) = pr_res.total_weight

\* min_cut mode picks a closure of positive weight that holds a block of
\* negative weight and leaves a block out
C2_Witness ==
    /\ Priced
    /\ algorithm = "min_cut"
    /\ pr_res.total_weight > 0
    /\ \E b \in pr_res.selected_blocks : BlockWeight(b) < 0
    /\ pr_res.selected_blocks # G.nodes

\* C3: reduced_cost is the convexity dual minus total_weight, and another
\* convexity dual gives the same selected blocks and the same total_weight
C3_ReducedCostShift ==
    Priced =>
        /\ pr_res.reduced_cost = pr_args.convexity_dual - pr_res.total_weight
        /\ \A z \in ZVals \ {pr_args.convexity_dual} :
              LET other == price(G, profits, algorithm, pr_args.duals, z)
              IN /\ other.selected_blocks = pr_res.selected_blocks
                 /\ other.total_weight = pr_res.total_weight

\* a call with a non-zero convexity dual that selects blocks
C3_Witness ==
    /\ Priced
    /\ pr_args.convexity_dual > 0
    /\ pr_res.selected_blocks # {}
    /\ pr_res.reduced_cost < 0

\* a direct solve returned a solution of the master as it stands, which holds
\* at least one column
Solved == sol.status = "optimal" /\ master.columns # <<>>
\* the returned lambda value of the column at position i
LambdaOf(i) == Get(sol.variable_values, master.columns[i].id, 0)
Holders(b) == {i \in DOMAIN master.columns : b \in master.columns[i].blocks}
ColumnBlocks == UNION {master.columns[i].blocks : i \in DOMAIN master.columns}
DistinctIds ==
    \A i, j \in DOMAIN master.columns : i # j => master.columns[i].id # master.columns[j].id
MaxProfit ==
    CHOOSE p \in {master.columns[i].profit : i \in DOMAIN master.columns} :
        \A i \in DOMAIN master.columns : master.columns[i].profit <= p

\* C4: after a solve on a master that holds at least one column, whatever
\* add_column and prune calls led to it, every returned lambda value is >= 0
\* and the returned lambda values sum to 1
C4_Convexity ==
    Solved =>
        /\ DOMAIN sol.variable_values # {}
        /\ \A k \in DOMAIN sol.variable_values : sol.variable_values[k] >= 0
        /\ SumSet(DOMAIN sol.variable_values, sol.variable_values) = Scale

\* a solve after a prune that returns two columns at lambda = 0.5
C4_Witness ==
    /\ Solved
    /\ calls.prune > 0
    /\ \E k, l \in DOMAIN sol.variable_values :
          k # l /\ sol.variable_values[k] > 0 /\ sol.variable_values[l] > 0

C6_OptimumIsMaxProfit ==
    Solved /\ DistinctIds =>
        /\ sol.objective_value = MaxProfit
        /\ SumSet(DOMAIN master.columns,
                  [i \in DOMAIN master.columns |-> master.columns[i].profit * LambdaOf(i)])
              = MaxProfit * Scale
        /\ SumSet(DOMAIN master.columns, [i \in DOMAIN master.columns |-> LambdaOf(i)]) = Scale
        /\ \A i \in DOMAIN master.columns : LambdaOf(i) >= 0
        /\ \A b \in ColumnBlocks :
              SumSet(Holders(b), [i \in Holders(b) |-> LambdaOf(i)]) <= Scale

\* a solve after a prune dropped a column, with columns of different profit
\* left, the better of them not the first
C6_Witness ==
    /\ Solved
    /\ DistinctIds
    /\ Len(master.objective) > Len(master.columns)
    /\ \E i, j \in DOMAIN master.columns :
          i < j /\ master.columns[i].profit < master.columns[j].profit /\ LambdaOf(j) = Scale

\* every master a caller can build is one solve has an outcome for
SolveReturnsOrRaises == solve(master) # {}
Last(h) == h[Len(h)]

\* C7: in every history entry run records, objective <= ub, ub being the
\* sum of the block duals plus the larger of the convexity dual and the
\* total weight of the pricing of that iteration
C7_ObjectiveBelowUb ==
    \A i \in DOMAIN history :
        /\ history[i].ub = history[i].dual_norm
                             + Max2(history[i].convexity_dual, history[i].total_weight)
        /\ history[i].objective <= history[i].ub

\* an entry whose bound comes from the pricing and lies strictly above the
\* objective, after an entry whose bound is met
C7_Witness ==
    \E i, j \in DOMAIN history :
        /\ history[i].total_weight > history[i].convexity_dual
        /\ history[i].objective < history[i].ub
        /\ history[i].dual_norm > 0
        /\ history[j].objective = history[j].ub
        /\ history[j].objective > 0

\* C8: a pass of run that records an entry returns 'converged' exactly when
\* the reduced cost of that entry is >= -eps, and a pass that returns
\* 'converged' adds no column; so a run that returned 'converged' has a last
\* history entry with reduced_cost >= -eps
C8_ConvergedIffReducedCost ==
    /\ [](result.status = "converged" =>
            history # <<>> /\ Last(history).reduced_cost >= 0 - eps)
    /\ [][(history' # history /\ history' # <<>>) =>
            /\ (result'.status = "converged") <=> (Last(history').reduced_cost >= 0 - eps)
            /\ result'.status = "converged" => (master' = master /\ pc' = "idle")]_vars

\* a run that converged in its second pass, on a reduced cost of -0.5 with
\* eps = 0.5
C8_Witness ==
    /\ result.status = "converged"
    /\ Len(history) = 2
    /\ eps = 1
    /\ Last(history).reduced_cost = 0 - 1
    /\ history[1].reduced_cost < 0 - eps

RunReturned == pc = "idle" /\ calls.run > 0

\* C9: run with max_iters = m >= 1 comes to an end after at most m
\* pricings: while it is under way it can always take its next step, every
\* step either returns or uses up one of the m passes, and no more than m
\* entries are recorded; without max_columns it returns 'converged' or
\* 'max_iters', with max_columns it may also return 'max_columns_reached';
\* the history of a run that returned has at least 1 and at most m entries
C9_RunTerminates ==
    /\ [](/\ it <= max_iters
          /\ Len(history) <= max_iters
          /\ pc = "running" => (Len(history) = it /\ solve(master) # {})
          /\ RunReturned =>
                /\ result.status \in {"converged", "max_iters"} \cup
                      (IF max_columns # None THEN {"max_columns_reached"} ELSE {})
                /\ Len(history) >= 1
                /\ result.iterations <= max_iters)
    /\ [][pc = "running" => (pc' = "idle" \/ (pc' = "running" /\ it' = it + 1))]_vars

\* a run on a seeded master that used every pass it had
C9_Witness ==
    /\ RunReturned
    /\ calls.seed > 0
    /\ master.columns # <<>>
    /\ master.columns[1].name = "init"
    /\ result.status = "max_iters"
    /\ max_columns = None
    /\ Len(history) = max_iters
    /\ max_iters = MaxIters
\* C10: whatever seed_with_singletons, run, prune_low_activity_columns,
\* initialize and add_column calls were made, with or without ids chosen by
\* the caller, the ids of the columns the master holds increase strictly in
\* insertion order (so they are pairwise distinct), and no id is given
\* twice, be it the id of a column that pruning removed: the LP variables,
\* which the objective keeps for good, all carry different ids
C10_IdsIncreaseNeverReused ==
    /\ \A i, j \in DOMAIN master.columns :
          i < j => master.columns[i].id < master.columns[j].id
    /\ \A v, w \in DOMAIN master.objective :
          v # w => master.objective[v].name # master.objective[w].name
\* the LP variable the master looks up for the column at position i
VarOf(i) == master.lambda_vars[master.columns[i].id]
ConvexityRows == {c \in master.constraints : c.kind = "convexity"}
PackingRows(b) == {c \in master.constraints : c.kind = "block" /\ c.block = b}

\* C11: after every add_column and every prune the constraints match the
\* current columns: the one convexity constraint sums exactly the variables
\* of the current columns; a block has a packing constraint if and only if
\* it belongs to a current column, and that constraint sums exactly the
\* variables of the columns that contain the block; no other variable occurs
\* in a constraint; there is at most one convexity constraint and at most
\* one packing constraint per block
C11_ConstraintsMatchColumns ==
    master.constraint_version > 0 =>
        /\ Cardinality(ConvexityRows) = 1
        /\ \A c \in ConvexityRows :
              c.coefs = [v \in {VarOf(i) : i \in DOMAIN master.columns} |-> 1]
        /\ \A b \in ColumnBlocks \cup {c.block : c \in master.constraints \ ConvexityRows} :
              /\ Cardinality(PackingRows(b)) <= 1
              /\ (PackingRows(b) # {}) <=> (Holders(b) # {})
              /\ \A c \in PackingRows(b) :
                    c.coefs = [v \in {VarOf(i) : i \in Holders(b)} |->
                                 Cardinality({i \in Holders(b) : VarOf(i) = v})]
        /\ \A c \in master.constraints :
              DOMAIN c.coefs \subseteq {VarOf(i) : i \in DOMAIN master.columns}
RunResult == RunReturned /\ result.status \notin {"none", "raised"}
NoLoss == \A b \in DOMAIN profits : profits[b] >= 0

ProfitOf(S) == SumSet(S, [b \in S |-> Get(profits, b, 0)])
PitOptimum ==
    CHOOSE w \in {ProfitOf(S) : S \in Closures(G)} :
        \A S \in Closures(G) : ProfitOf(S) <= w

\* C14: the objective run returns and the objective of every history entry
\* never exceed the ultimate-pit optimum, the largest total profit over the
\* closures of the DAG, seeding with singleton columns included
C14_ObjectiveBelowPit ==
    /\ \A i \in DOMAIN history : history[i].objective <= PitOptimum
    /\ RunResult => result.objective <= PitOptimum

\* C14 without seeding: the columns are the closures the pricer found
C14_UnseededBelowPit ==
    calls.seed = 0 => C14_ObjectiveBelowPit
\* C15: when the LP back-end reports a status other than optimal during
\* run, run ends by returning a result of status 'error', and the history and
\* the diagnostics recorded so far are kept
C15_SolverErrorReturned ==
    [][(pc = "running" /\ SolverError \in solve(master))
          => /\ pc' = "idle"
             /\ result'.status = "error"
             /\ history' = history
             /\ diagnostics' = diagnostics]_vars
\* the calls this run has to have made: for each entry of the history, in
\* order, one call of each registered callback, in the order of registration,
\* made when the entry was the last of the history and the column of that
\* pass was not yet added
CallsDue ==
    LET n == Len(iter_callbacks)
    IN [j \in 1 .. Len(history) * n |->
          LET i == ((j - 1) \div n) + 1
              k == ((j - 1) % n) + 1
          IN [cb |-> k, iter |-> history[i].iter, entries |-> i,
              columns |-> history[i].n_columns, outcome |-> iter_callbacks[k]]]

\* C16: a callback that raises never makes run raise; each pass of run
\* leaves the status, the objective, the history and the columns it would
\* leave without callbacks; every registered callback is called once per
\* pass, the last pass included, in the order of registration, after the
\* entry is appended and before run stops or adds the column
C16_CallbackErrorsSuppressed ==
    /\ [](result.status # "raised")
    /\ [][RunIter => RunPass(<<>>)]_vars
    /\ [](cb_calls = CallsDue)

\* a run of two passes that returned, with a raising callback registered
\* before one that returns: four calls, the raising ones followed by the
\* others
C16_Witness ==
    /\ RunResult
    /\ iter_callbacks = <<"raises", "returns">>
    /\ Len(history) = 2
    /\ Len(cb_calls) = 4
    /\ cb_calls[3].outcome = "raises" /\ cb_calls[4].outcome = "returns"
    /\ cb_calls[4].entries = 2
    /\ result.status = "converged"
\* C17: once the cancellation flag is set, a pass of run adds no column and
\* ends the run after its pricing; the run returns 'cancelled' (or the
\* status of a stop test met in that pass) and leaves the diagnostics as
\* they are
C17_CancelledAfterFlag ==
    [][(cancel_flag /\ RunIter) =>
          /\ master'.columns = master.columns
          /\ pc' = "idle"
          /\ result'.status \in {"cancelled", "converged", "max_columns_reached"}
          /\ result'.status = "cancelled" => diagnostics' = diagnostics]_vars
FracEq(a, b) == a.num * b.den = b.num * a.den

\* the diagnostics are those of the history of this run
DiagnosticsOfHistory ==
    /\ {"best_objective", "best_rel_gap", "last_ub"} \subseteq DOMAIN diagnostics
    /\ \E i \in DOMAIN history : diagnostics["best_objective"] = history[i].objective
    /\ \A i \in DOMAIN history : history[i].objective <= diagnostics["best_objective"]
    /\ \E i \in DOMAIN history : FracEq(diagnostics["best_rel_gap"], history[i].rel_gap)
    /\ \A i \in DOMAIN history : FracLeq(diagnostics["best_rel_gap"], history[i].rel_gap)
    /\ diagnostics["last_ub"] = Last(history).ub

\* C18: whenever run returns, with any status, the diagnostics hold the
\* largest objective and the smallest rel_gap of the history of this run and
\* the ub of its last entry
C18_DiagnosticsOfThisRun ==
    RunResult => DiagnosticsOfHistory

\* C18 for the two statuses under which run writes the diagnostics
C18_DiagnosticsWhenFinalised ==
    (RunResult /\ result.status \in {"converged", "max_iters"}) => DiagnosticsOfHistory
\* the guard of max_columns as a pass of run meets it
AtMaxColumns == max_columns # None /\ Len(master.columns) >= max_columns

\* C19: with max_columns set, a pass of run adds no column while the master
\* holds max_columns columns or more; the pass that has reduced cost < -eps
\* with that many columns returns 'max_columns_reached', and no other pass
\* does; a pass with reduced cost >= -eps returns 'converged' even then; so
\* a run leaves at most max(max_columns, columns it started with) columns
C19_MaxColumnsGuard ==
    /\ [][(pc = "running" /\ AtMaxColumns) => master'.columns = master.columns]_vars
    /\ [][(history' # history /\ history' # <<>>) =>
            /\ (result'.status = "max_columns_reached")
                  <=> (AtMaxColumns /\ Last(history').reduced_cost < 0 - eps)
            /\ (AtMaxColumns /\ Last(history').reduced_cost >= 0 - eps)
                  => result'.status = "converged"]_vars
    /\ [][(pc = "running" /\ max_columns # None /\ history' # <<>>) =>
            Len(master'.columns) <= Max2(max_columns, history'[1].n_columns)]_vars

\* a run that started below max_columns, added a column and was stopped by
\* the guard in its second pass
C19_Witness ==
    /\ RunResult
    /\ result.status = "max_columns_reached"
    /\ Len(history) = 2
    /\ history[1].n_columns < max_columns
    /\ Len(master.columns) = max_columns
\* the source nodes of the DAG: the blocks without predecessor
SourceNodes == {b \in G.nodes : \A e \in G.edges : e[2] # b}

\* C20: seed_with_singletons called without topk and without limit inserts
\* one singleton column per source node of the DAG and none for another
\* block, so each column it inserts is closed under predecessors
C20_SeedsAreSourceNodes ==
    [][Seed(None, None) =>
          LET seeded == {i \in DOMAIN master'.columns : i > Len(master.columns)}
          IN /\ \A i \in seeded : \E b \in SourceNodes : master'.columns[i].blocks = {b}
             /\ \A b \in SourceNodes :
                   Cardinality({i \in seeded : master'.columns[i].blocks = {b}}) = 1
             /\ \A i \in seeded : IsClosure(G, master'.columns[i].blocks)]_vars
\* C21: after a successful solve, get_block_dual(b) is the dual the solve
\* reported for block b when b has a packing constraint, and 0.0 when no
\* column covers b
C21_BlockDualIsReported ==
    Solved => \A b \in 0 .. NBlocks :
        get_block_dual(master, sol, b) = Get(sol.duals, b, 0)
\* what solve returns for a master without variables
ZeroSolution ==
    [status |-> "optimal", objective_value |-> 0, duals |-> <<>>,
     convexity_dual |-> 0, variable_values |-> <<>>]

\* C22: on a master without variables, whether it never had a column or
\* lost all of them to pruning, solve returns objective 0, no duals,
\* convexity dual 0 and no variable values, whatever the LP the model holds,
\* and export_solution returns status 'no_variables'
C22_EmptyMasterSolves ==
    master.lambda_vars = <<>> =>
        /\ solve(master) = {ZeroSolution}
        /\ sol \in {NoSolution, ZeroSolution}
        /\ export_solution(master) = {[status |-> "no_variables"]}

\* a master emptied by pruning and solved: its LP still holds the objective
\* terms of the pruned columns and a convexity row 0 = 1
C22_Witness ==
    /\ master.lambda_vars = <<>>
    /\ calls.prune > 0
    /\ master.objective # <<>>
    /\ PrimalFeasible(master) = {}
    /\ sol = ZeroSolution
\* the nodes the source reaches over arcs of positive residual capacity once
\* a maximum flow is found: the smallest source side of a minimum cut
ResidualReach(H) ==
    LET sides == {{Source} \cup S : S \in SUBSET (H.nodes \ {Source, Sink})}
        value == minimum_cut(H).cut_value
        least == {S \in sides : CutCapacity(H, S) = value}
    IN {n \in H.nodes : \A S \in least : n \in S}

\* C23: in 'edmonds_karp' mode the selected blocks are the blocks reachable
\* from the source over arcs of positive residual capacity after the maximum
\* flow; their weights sum to total_weight, and total_weight is the one of
\* 'min_cut' mode on the same input
C23_SelectedIsResidualReach ==
    (Priced /\ algorithm = "edmonds_karp") =>
        LET H == build_cut_graph(G, price_weights(G, profits, pr_args.duals))
        IN /\ pr_res.selected_blocks = ResidualReach(H) \ {Source, Sink}
           /\ WeightOf(pr_res.selected_blocks) = pr_res.total_weight
           /\ pr_res.total_weight =
                 price(G, profits, "min_cut", pr_args.duals, pr_args.convexity_dual).total_weight

\* C23, the part on total_weight alone
C23_SameTotalWeight ==
    (Priced /\ algorithm = "edmonds_karp") =>
        pr_res.total_weight =
            price(G, profits, "min_cut", pr_args.duals, pr_args.convexity_dual).total_weight
NoGain == \A n \in G.nodes : BlockWeight(n) <= 0

\* C24: when every block weight profit - dual is <= 0, weights of exactly 0
\* included, price returns no selected block, total_weight 0 and the
\* convexity dual as reduced cost
C24_NothingSelectedWithoutGain ==
    (Priced /\ NoGain) =>
        /\ pr_res.selected_blocks = {}
        /\ pr_res.total_weight = 0
        /\ pr_res.reduced_cost = pr_args.convexity_dual

\* C24 without the claim on the weights of exactly 0: total_weight and
\* reduced cost are as stated, a selected block has weight 0, and nothing is
\* selected in 'edmonds_karp' mode or when every weight is < 0
C24_NothingGainedWithoutGain ==
    (Priced /\ NoGain) =>
        /\ pr_res.total_weight = 0
        /\ pr_res.reduced_cost = pr_args.convexity_dual
        /\ \A n \in pr_res.selected_blocks : BlockWeight(n) = 0
        /\ algorithm = "edmonds_karp" => pr_res.selected_blocks = {}
\* C25: in every history entry run records, ub is at least the largest
\* total profit of a predecessor-closed block set of the DAG
C25_UbAbovePit ==
    \A i \in DOMAIN history : history[i].ub >= PitOptimum

\* an entry of a seeded run whose objective is below the pit optimum, with
\* block duals in its bound
C25_Witness ==
    /\ calls.seed > 0
    /\ \E i \in DOMAIN history :
          /\ history[i].objective < PitOptimum
          /\ history[i].dual_norm > 0
          /\ history[i].ub >= PitOptimum
          /\ PitOptimum > Scale
\* C26: with whole-number profits, eps >= 0 and optimal duals, run never
\* adds a column whose block set is that of a column the master holds; so
\* without max_columns and with more passes than the DAG has closures, run
\* returns 'converged', never 'max_iters'
C26_NoRepeatedColumn ==
    /\ [][pc = "running" =>
            \A i \in DOMAIN master'.columns : i > Len(master.columns) =>
                \A j \in DOMAIN master.columns :
                    master.columns[j].blocks # master'.columns[i].blocks]_vars
    /\ []((RunResult /\ max_columns = None /\ max_iters > Cardinality(Closures(G)))
            => result.status = "converged")

\* a run given more passes than there are closures that added two columns
\* or more to its seeds before it converged
C26_Witness ==
    /\ RunResult
    /\ calls.seed > 0
    /\ max_iters > Cardinality(Closures(G))
    /\ result.status = "converged"
    /\ result.iterations >= 2
\* the largest profit among the columns of m
MaxProfitOf(m) ==
    CHOOSE q \in {m.columns[i].profit : i \in DOMAIN m.columns} :
        \A i \in DOMAIN m.columns : m.columns[i].profit <= q

\* what the claim expects of the master m2 left by a pruning of m to k
\* columns
PrunedWell(m, m2, k) ==
    /\ Len(m2.columns) <= k
    /\ \E r \in solve(m) :
          /\ m2 = prune_columns(m, r.variable_values, k)
          /\ \E i \in DOMAIN m.columns :
                /\ \A j \in DOMAIN m.columns :
                      Get(r.variable_values, m.columns[j].id, 0)
                        <= Get(r.variable_values, m.columns[i].id, 0)
                /\ \E j \in DOMAIN m2.columns : m2.columns[j] = m.columns[i]
    /\ \A v \in LpVars(m2) : m2.objective[v].coef # 0 => v \in LiveVars(m2)
    /\ SolverError \notin solve(m2)
    /\ \A r \in solve(m2) : r.objective_value = MaxProfitOf(m2)

\* C27: prune_low_activity_columns(keep_top_k) with keep_top_k >= 1, on a
\* master that holds columns of distinct ids and can be solved, leaves at
\* most keep_top_k columns, a column of highest activity among them, and no
\* variable of a removed column in the LP, objective included; the next
\* solve succeeds and returns the optimum over the columns left
C27_PruneKeepsLpSolvable ==
    [][\A k \in KeepTopKs \ {0} :
          (Prune(k) /\ master.columns # <<>> /\ DistinctIds /\ SolverError \notin solve(master))
              => PrunedWell(master, master', k)]_vars

\* C27 without what it says of the LP after the pruning
C27_PruneKeepsTopColumns ==
    [][\A k \in KeepTopKs \ {0} :
          (Prune(k) /\ master.columns # <<>> /\ DistinctIds /\ SolverError \notin solve(master))
              => /\ Len(master'.columns) <= k
                 /\ \E r \in solve(master) :
                       /\ master' = prune_columns(master, r.variable_values, k)
                       /\ \E i \in DOMAIN master.columns :
                             /\ \A j \in DOMAIN master.columns :
                                   Get(r.variable_values, master.columns[j].id, 0)
                                     <= Get(r.variable_values, master.columns[i].id, 0)
                             /\ \E j \in DOMAIN master'.columns :
                                   master'.columns[j] = master.columns[i]]_vars
\* the columns added since the first pass of the run under way
AddedInRun(m) == {i \in DOMAIN m.columns : history # <<>> /\ i > history[1].n_columns}

\* C28: in the history of a run the k-th entry (from 0) has iter = k and
\* n_columns = the number of columns before the run + k; entries are only
\* appended, each with the number of columns the master holds; the column a
\* pass adds has an id above every id given earlier in the run; run clears
\* the history of an earlier run before its first pass
C28_HistoryInIterationOrder ==
    /\ [](\A k \in DOMAIN history :
            /\ history[k].iter = k - 1
            /\ history[k].n_columns = history[1].n_columns + (k - 1))
    /\ [][history' # history =>
            \/ pc = "idle" /\ pc' = "running" /\ history' = <<>> /\ master' = master
            \/ /\ pc = "running"
               /\ history' = Append(history, Last(history'))
               /\ Last(history').n_columns = Len(master.columns)]_vars
    /\ [][(pc = "idle" /\ pc' = "running") => history' = <<>>]_vars
    /\ [][(pc = "running" /\ master' # master) =>
            /\ Len(master'.columns) = Len(master.columns) + 1
            /\ SubSeq(master'.columns, 1, Len(master.columns)) = master.columns
            /\ \A i \in AddedInRun(master) :
                  master.columns[i].id < Last(master'.columns).id]_vars

\* the second run of a controller, two entries into its history, the first
\* run having left columns
C28_Witness ==
    /\ calls.run = 2
    /\ Len(history) = 2
    /\ history[1].n_columns > calls.seed * NBlocks
    /\ history[2].iter = 1
    /\ Len(master.columns) = history[2].n_columns
\* C29: whatever the status run returns, 'iterations' is the number of
\* columns the run added and 'objective' is the LP optimum over the columns
\* the master holds at that moment; a pass of run removes no column and adds
\* at most one, after a pricing with reduced cost < -eps
C29_IterationsCountColumns ==
    /\ [][(pc = "running" /\ pc' = "idle" /\ result'.status # "raised") =>
            /\ result'.iterations = Len(master'.columns) - history'[1].n_columns
            /\ result'.objective =
                  IF master'.columns = <<>> THEN 0 ELSE MaxProfitOf(master')
            /\ \A r \in solve(master') : r.objective_value = result'.objective]_vars
    /\ [][(pc = "running" /\ master' # master) =>
            /\ Len(master'.columns) = Len(master.columns) + 1
            /\ SubSeq(master'.columns, 1, Len(master.columns)) = master.columns
            /\ history' # history
            /\ Last(history').reduced_cost < 0 - eps]_vars

\* a run that used its two passes, added a column in each and returned
\* 'max_iters' with the objective of the final solve, above that of its
\* first entry
C29_Witness ==
    /\ RunResult
    /\ result.status = "max_iters"
    /\ result.iterations = 2
    /\ Len(master.columns) = history[1].n_columns + 2
    /\ result.objective >= Last(history).objective
    /\ result.objective > history[1].objective
\* the columns the master held when the run began were closures of the DAG
StartedFromClosures ==
    /\ history # <<>>
    /\ \A i \in 1 .. history[1].n_columns : IsClosure(G, master.columns[i].blocks)

\* C30: when run returns 'converged' after starting from an empty master or
\* from columns that are all closures of the DAG, the objective it returns
\* is at most the ultimate-pit optimum and at least that optimum less eps
C30_ConvergedAtPitOptimum ==
    (RunResult /\ result.status = "converged" /\ StartedFromClosures) =>
        /\ PitOptimum - eps <= result.objective
        /\ result.objective <= PitOptimum

\* a run on a chain with precedence, started from a seeded closure, that
\* converged in its second pass at a positive pit optimum
C30_Witness ==
    /\ RunResult
    /\ result.status = "converged"
    /\ StartedFromClosures
    /\ history[1].n_columns > 0
    /\ G.edges # {}
    /\ Len(history) = 2
    /\ history[1].objective < PitOptimum
    /\ result.objective = PitOptimum
    /\ PitOptimum > 0
====
